---- MODULE Spec2Model ----
(***************************************************************************)
(* PortalWallet (crates/cdk-portal-wallet/src/lib.rs): the test payment    *)
(* backend of the mint.  The state is the fields of struct PortalWallet    *)
(* (shared by all clones of one wallet), the stream handed to the consumer *)
(* of wait_any_incoming_payment, and the position of every caller that is  *)
(* inside create_incoming_payment_request (the only operation with an      *)
(* await that can suspend for long: sender.send on a bounded channel).     *)
(* With it, the unit table of the mintd settings and its override from the *)
(* environment (crates/cdk-mintd/src/env_vars/portal_wallet.rs).           *)
(*                                                                         *)
(* Specifications:                                                         *)
(*   SpecNotifier  the channel, its consumer and two concurrent issuers    *)
(*   SpecCodec     issuance of any amount and description, then decoding   *)
(*   SpecStore     the seeded maps and the operations that read them       *)
(*   SpecRequests  every MintPayment operation in one interleaving         *)
(*   SpecLocks     the calls that lock a Mutex, one lock at a time         *)
(*   SpecConfig    from_env on the settings' unit table                    *)
(***************************************************************************)
EXTENDS Integers, Sequences, FiniteSets, TLC

\* ---------------------------------------------------------------- bounds
\* Invoices issued in one behaviour (caps the fresh payment-hash counter).
MaxPublish == 9

\* ------------------------------------------------------ program constants
\* tokio::sync::mpsc::channel(8)
ChannelCapacity == 8
\* supported_units.get(unit).cloned().unwrap_or(32)
DefaultMaxOrder == 32

\* ------------------------------------------------------------ input sets
\* Concurrent callers of create_incoming_payment_request (tasks holding a clone).
Callers == {1, 2}
\* Lookup ids callers ask about and tests pre-seed (payment hashes as hex).
LookupIds == {1, 2}
\* cdk::nuts::MeltQuoteState
MeltQuoteState == {"Unpaid", "Pending", "Paid", "Failed"}
\* cdk::nuts::CurrencyUnit values used as keys of supported_units
CurrencyUnit == {"sat", "usd"}
\* u8 values passed to add_supported_unit
MaxOrders == {10, 20}
\* Amount and description the concurrent issuers of the notifier pass
Amounts == {21}
Descriptions == {"d"}
\* Amounts (msat) and descriptions of the invoices put through the codec, and
\* amounts of melt quotes
InvoiceAmounts == {1, 21}
InvoiceDescriptions == {"", "d"}

\* Result<T, E>
Ok(v) == [ok |-> TRUE, v |-> v]
Err(e) == [ok |-> FALSE, err |-> e]

\* Option<T> of HashMap::get on a map modelled as a function on its keys
Get(map, key) == IF key \in DOMAIN map THEN <<map[key]>> ELSE <<>>
UnwrapOr(opt, default) == IF opt = <<>> THEN default ELSE opt[1]
\* HashMap::insert
Insert(map, key, value) ==
    [k \in DOMAIN map \cup {key} |-> IF k = key THEN value ELSE map[k]]

\* All HashMap<K, V> with keys in K and values in V
Maps(K, V) == UNION {[D -> V] : D \in SUBSET K}

VARIABLES
    channel,                   \* buffer of the mpsc channel behind sender/receiver
    receiver,                  \* Arc<Mutex<Option<Receiver>>>: "Some" or "None"
    stream,                    \* the ReceiverStream given out: "none", "open", "dropped"
    payment_states,            \* HashMap<String, MeltQuoteState>
    failed_payment_check,      \* HashSet<String>
    wait_invoice_cancel_token, \* CancellationToken: TRUE once cancelled
    wait_invoice_is_active,    \* AtomicBool
    supported_units,           \* HashMap<CurrencyUnit, u8>
    pc,                        \* per caller: "idle" or "send" (awaiting sender.send)
    invoice,                   \* per caller: the invoice built before the send
    args,                      \* per caller: <<amount, description>> it was called with
    random_bytes,              \* payment hashes drawn so far (each draw is fresh)
    ret,                       \* the last completed call: operation, argument, result
    config_supported_units,    \* config::PortalWallet.supported_units (mintd settings)
    mutex,                     \* per tokio Mutex of the wallet: the task holding it, or 0
    task,                      \* per task: the call it is in and how far it has got
    published,                 \* history: labels pushed into the channel, in order
    delivered,                 \* history: labels the consumer's stream yielded, in order
    drainedAfterCancel,        \* history: the token is cancelled and the buffer has
                               \*   been empty since (what it holds was pushed later)
    attachedCancelled,         \* history: the token's state when the stream was created
    lastFinal,                 \* history: per lookup id, <<>> or <<the Paid/Failed last
                               \*   reported, whether it was reported more than once>>
    registered                 \* history: last max_order registered per unit

notifier == <<channel, receiver, stream, wait_invoice_cancel_token, wait_invoice_is_active>>
store == <<payment_states, failed_payment_check, supported_units>>
callers == <<pc, invoice, args, random_bytes>>
config == <<config_supported_units>>
locking == <<mutex, task>>
history == <<published, delivered, drainedAfterCancel, attachedCancelled, lastFinal,
             registered>>
vars == <<notifier, store, callers, ret, history, config, locking>>

NoInvoice == [amount |-> 0, description |-> "", payment_hash |-> 0]

\* PortalWallet::new(payment_states, fail_payment_check)
new(states, fail_payment_check) ==
    /\ channel = <<>>
    /\ receiver = "Some"
    /\ stream = "none"
    /\ payment_states = states
    /\ failed_payment_check = fail_payment_check
    /\ wait_invoice_cancel_token = FALSE
    /\ wait_invoice_is_active = FALSE
    /\ supported_units = <<>>
    /\ pc = [p \in Callers |-> "idle"]
    /\ invoice = [p \in Callers |-> NoInvoice]
    /\ args = [p \in Callers |-> <<>>]
    /\ random_bytes = 0
    /\ ret = [op |-> "new", arg |-> <<>>, val |-> Ok(<<>>)]
    /\ published = <<>>
    /\ delivered = <<>>
    /\ drainedAfterCancel = FALSE
    /\ attachedCancelled = FALSE
    /\ lastFinal = [id \in LookupIds |-> <<>>]
    /\ registered = [unit \in CurrencyUnit |-> <<>>]

\* A wallet built with any pre-seeded settlement states and any fault set.
\* The four tokio Mutexes of the wallet and the tasks that call into it.
Mutexes == {"receiver", "payment_states", "failed_payment_check", "supported_units"}
Tasks == {1, 2}
\* A task: the call it is in, its arguments, and how many locks it has acquired.
IdleTask == [op |-> "idle", arg |-> <<>>, held |-> 0]

\* No task is inside a call that takes a lock.
no_tasks ==
    /\ mutex = [m \in Mutexes |-> 0]
    /\ task = [t \in Tasks |-> IdleTask]

\* Nothing else is going on: the mintd settings carry no unit table and no
\* task is inside a call that takes a lock.
quiescent ==
    /\ config_supported_units = <<>>
    /\ no_tasks

Init ==
    \E states \in Maps(LookupIds, MeltQuoteState), fail_payment_check \in SUBSET LookupIds :
        new(states, fail_payment_check) /\ quiescent

\* A wallet built with nothing pre-seeded: new(HashMap::new(), HashSet::new()).
InitNotifier == new(<<>>, {}) /\ quiescent

\* ------------------------------------------------------------ the notifier

\* fn is_wait_invoice_active: self.wait_invoice_is_active.load(SeqCst)
is_wait_invoice_active(flag) == flag

IsWaitInvoiceActive ==
    /\ ret' = [op |-> "is_wait_invoice_active", arg |-> <<>>,
               val |-> is_wait_invoice_active(wait_invoice_is_active)]
    /\ UNCHANGED <<config, locking, notifier, store, callers, history>>

\* fn cancel_wait_invoice: self.wait_invoice_cancel_token.cancel()
cancel_wait_invoice(token) == TRUE

CancelWaitInvoice ==
    /\ wait_invoice_cancel_token' = cancel_wait_invoice(wait_invoice_cancel_token)
    /\ ret' = [op |-> "cancel_wait_invoice", arg |-> <<>>, val |-> <<>>]
    /\ drainedAfterCancel' = (drainedAfterCancel \/ channel = <<>>)
    /\ UNCHANGED <<config, locking, channel, receiver, stream, wait_invoice_is_active, store, callers,
                   published, delivered, attachedCancelled, lastFinal, registered>>

\* As wait_any_incoming_payment, but reading the Option without taking it.
wait_any_incoming_payment_no_take(rcv) ==
    [result |-> IF rcv = "Some" THEN Ok("ReceiverStream") ELSE Err("NoReceiver"),
     receiver |-> rcv]

\* self.receiver.lock().await.take().ok_or(Error::NoReceiver): the Option is left
\* None whatever it held.
wait_any_incoming_payment(rcv) ==
    [result |-> IF rcv = "Some" THEN Ok("ReceiverStream") ELSE Err("NoReceiver"),
     receiver |-> "None"]

\* As WaitAnyIncomingPayment, but the stream starts on an emptied channel.
WaitAnyIncomingPaymentFromNow ==
    LET r == wait_any_incoming_payment(receiver) IN
    /\ receiver' = r.receiver
    /\ stream' = IF r.result.ok THEN "open" ELSE stream
    /\ channel' = IF r.result.ok THEN <<>> ELSE channel
    /\ attachedCancelled' = IF r.result.ok THEN wait_invoice_cancel_token
                            ELSE attachedCancelled
    /\ ret' = [op |-> "wait_any_incoming_payment", arg |-> <<>>, val |-> r.result]
    /\ UNCHANGED <<config, locking, wait_invoice_cancel_token, wait_invoice_is_active,
                   store, callers, published, delivered, drainedAfterCancel, lastFinal,
                   registered>>

WaitAnyIncomingPayment ==
    LET r == wait_any_incoming_payment(receiver) IN
    /\ receiver' = r.receiver
    /\ stream' = IF r.result.ok THEN "open" ELSE stream
    /\ attachedCancelled' = IF r.result.ok THEN wait_invoice_cancel_token
                            ELSE attachedCancelled
    /\ ret' = [op |-> "wait_any_incoming_payment", arg |-> <<>>, val |-> r.result]
    /\ UNCHANGED <<config, locking, channel, wait_invoice_cancel_token, wait_invoice_is_active, store,
                   callers, published, delivered, drainedAfterCancel, lastFinal, registered>>

\* As poll_next, but yielding the newest buffered label first.
poll_next_newest(chan) ==
    IF chan # <<>>
    THEN [ready |-> TRUE, item |-> chan[Len(chan)],
          channel |-> SubSeq(chan, 1, Len(chan) - 1)]
    ELSE [ready |-> FALSE, item |-> 0, channel |-> chan]

\* The consumer polls the ReceiverStream (receiver_stream.map(|label| label)): the
\* oldest buffered label, or nothing yet while the buffer is empty (the wallet
\* keeps a Sender, so the stream never sees the channel closed by its senders).
\* The cancellation token is not consulted.
poll_next(chan) ==
    IF chan # <<>> THEN [ready |-> TRUE, item |-> Head(chan), channel |-> Tail(chan)]
    ELSE [ready |-> FALSE, item |-> 0, channel |-> chan]

\* As StreamNext, but a stream that yields nothing more once the token is
\* cancelled.
StreamNextUntilCancelled ==
    LET r == poll_next(channel) IN
    /\ stream = "open"
    /\ r.ready
    /\ ~wait_invoice_cancel_token
    /\ channel' = r.channel
    /\ delivered' = Append(delivered, r.item)
    /\ drainedAfterCancel' =
          (drainedAfterCancel \/ (wait_invoice_cancel_token /\ r.channel = <<>>))
    /\ ret' = [op |-> "stream.next", arg |-> <<>>, val |-> r.item]
    /\ UNCHANGED <<config, locking, receiver, stream, wait_invoice_cancel_token, wait_invoice_is_active,
                   store, callers, published, attachedCancelled, lastFinal, registered>>

StreamNext ==
    LET r == poll_next(channel) IN
    /\ stream = "open"
    /\ r.ready
    /\ channel' = r.channel
    /\ delivered' = Append(delivered, r.item)
    /\ drainedAfterCancel' =
          (drainedAfterCancel \/ (wait_invoice_cancel_token /\ r.channel = <<>>))
    /\ ret' = [op |-> "stream.next", arg |-> <<>>, val |-> r.item]
    /\ UNCHANGED <<config, locking, receiver, stream, wait_invoice_cancel_token, wait_invoice_is_active,
                   store, callers, published, attachedCancelled, lastFinal, registered>>

\* The consumer drops the stream it was given: the Receiver closes the channel
\* and discards what is still buffered.
StreamDrop ==
    /\ stream = "open"
    /\ stream' = "dropped"
    /\ channel' = <<>>
    /\ drainedAfterCancel' = wait_invoice_cancel_token
    /\ ret' = [op |-> "stream.drop", arg |-> <<>>, val |-> <<>>]
    /\ UNCHANGED <<config, locking, receiver, wait_invoice_cancel_token, wait_invoice_is_active, store,
                   callers, published, delivered, attachedCancelled, lastFinal,
                   registered>>

\* -------------------------------------------------------- the invoice codec

\* Variant: the builder is given an empty description.
create_fake_invoice_no_description(amount_msat, description, hash) ==
    [amount |-> amount_msat, description |-> "", payment_hash |-> hash]

\* create_fake_invoice(amount_msat, description), with the 32 random bytes drawn
\* for the payment hash as `hash`.
create_fake_invoice(amount_msat, description, hash) ==
    [amount |-> amount_msat, description |-> description, payment_hash |-> hash]

\* invoice.to_string() / Bolt11Invoice::from_str(request)
to_string(inv) == <<"lnbc", inv.amount, inv.description, inv.payment_hash>>
from_str(request) ==
    IF Len(request) = 4 /\ request[1] = "lnbc"
    THEN Ok([amount |-> request[2], description |-> request[3],
             payment_hash |-> request[4]])
    ELSE Err("InvalidInvoice")

\* ------------------------------------------------ create_incoming_payment_request

\* Variant: the label is sent a second time after the first send went through.
mpsc_send_twice(chan, closed, label) ==
    IF closed THEN [result |-> Err("SendError"), channel |-> chan]
    ELSE [result |-> Ok(<<>>), channel |-> Append(Append(chan, label), label)]

\* sender.send(label).await on the bounded channel: Err once the Receiver is
\* dropped, otherwise the label joins the back of the buffer.
mpsc_send(chan, closed, label) ==
    IF closed THEN [result |-> Err("SendError"), channel |-> chan]
    ELSE [result |-> Ok(<<>>), channel |-> Append(chan, label)]

\* Variant: an unbounded channel, whose send never waits.
send_ready_unbounded(chan, closed) == TRUE

\* send completes when the buffer has room or the channel is closed; until then
\* the caller stays suspended in it.
send_ready(chan, closed) == closed \/ Len(chan) < ChannelCapacity

\* let invoice = create_fake_invoice(amount_msat.into(), description);
create_invoice(p, amount, description) ==
    /\ pc[p] = "idle"
    /\ random_bytes < MaxPublish
    /\ args' = [args EXCEPT ![p] = <<amount, description>>]
    /\ invoice' = [invoice EXCEPT
                     ![p] = create_fake_invoice(amount, description, random_bytes + 1)]
    /\ random_bytes' = random_bytes + 1
    /\ pc' = [pc EXCEPT ![p] = "send"]
    /\ ret' = [op |-> "create_fake_invoice", arg |-> <<>>, val |-> <<>>]
    /\ UNCHANGED <<config, locking, notifier, store, history>>

\* A caller enters create_incoming_payment_request with some amount and description.
CreateInvoice(p) ==
    \E amount \in Amounts, description \in Descriptions :
        create_invoice(p, amount, description)

\* Variant: the send error is propagated with `?` instead of being logged.
SendLabelEscalating(p) ==
    LET closed == stream = "dropped"
        r == mpsc_send(channel, closed, invoice[p].payment_hash) IN
    /\ pc[p] = "send"
    /\ send_ready(channel, closed)
    /\ channel' = r.channel
    /\ published' = IF r.result.ok THEN Append(published, invoice[p].payment_hash)
                    ELSE published
    /\ ret' = [op |-> "create_incoming_payment_request",
               arg |-> args[p],
               val |-> IF r.result.ok
                       THEN Ok([request_lookup_id |-> invoice[p].payment_hash,
                                request |-> to_string(invoice[p]),
                                expiry |-> "expires_at"])
                       ELSE r.result]
    /\ pc' = [pc EXCEPT ![p] = "idle"]
    /\ invoice' = [invoice EXCEPT ![p] = NoInvoice]
    /\ args' = [args EXCEPT ![p] = <<>>]
    /\ UNCHANGED <<config, locking, receiver, stream, wait_invoice_cancel_token,
                   wait_invoice_is_active, store, random_bytes, delivered,
                   drainedAfterCancel, attachedCancelled, lastFinal, registered>>

\* if self.sender.send(payment_hash.to_string()).await.is_err() { tracing::error!(..) }
\* Ok(CreateIncomingPaymentResponse { request_lookup_id, request, expiry })
SendLabel(p) ==
    LET closed == stream = "dropped"
        r == mpsc_send(channel, closed, invoice[p].payment_hash) IN
    /\ pc[p] = "send"
    /\ send_ready(channel, closed)
    /\ channel' = r.channel
    /\ published' = IF r.result.ok THEN Append(published, invoice[p].payment_hash)
                    ELSE published
    /\ ret' = [op |-> "create_incoming_payment_request",
               arg |-> args[p],
               val |-> Ok([request_lookup_id |-> invoice[p].payment_hash,
                           request |-> to_string(invoice[p]),
                           expiry |-> "expires_at"])]
    /\ pc' = [pc EXCEPT ![p] = "idle"]
    /\ invoice' = [invoice EXCEPT ![p] = NoInvoice]
    /\ args' = [args EXCEPT ![p] = <<>>]
    /\ UNCHANGED <<config, locking, receiver, stream, wait_invoice_cancel_token,
                   wait_invoice_is_active, store, random_bytes, delivered,
                   drainedAfterCancel, attachedCancelled, lastFinal, registered>>

NextNotifier ==
    \/ IsWaitInvoiceActive
    \/ CancelWaitInvoice
    \/ WaitAnyIncomingPayment
    \/ StreamNext
    \/ StreamDrop
    \/ \E p \in Callers : CreateInvoice(p)
    \/ \E p \in Callers : SendLabel(p)

SpecNotifier == InitNotifier /\ [][NextNotifier]_vars

\* ------------------------------------- the settlement-state store and the units

\* Requests a caller may pass: the encodings of invoices, and text that is none.
Requests ==
    {to_string(create_fake_invoice(a, d, h)) :
        a \in InvoiceAmounts, d \in InvoiceDescriptions, h \in LookupIds}
    \cup {<<"garbage">>}
\* mint::MeltQuote, the fields make_payment reads
MeltQuotes == [request : Requests, amount : InvoiceAmounts, unit : CurrencyUnit]

\* async fn get_settings
get_settings ==
    Ok([mpp |-> TRUE, unit |-> "msat", invoice_description |-> TRUE, amountless |-> FALSE])

GetSettings ==
    /\ ret' = [op |-> "get_settings", arg |-> <<>>, val |-> get_settings]
    /\ UNCHANGED <<config, locking, notifier, store, callers, history>>

\* Variant: the quote carries the amount of the invoice.
get_payment_quote_invoice_amount(request, unit) ==
    LET bolt11 == from_str(request) IN
    IF ~bolt11.ok THEN bolt11
    ELSE Ok([request_lookup_id |-> bolt11.v.payment_hash, amount |-> bolt11.v.amount,
             fee |-> 0, unit |-> unit, state |-> "Unpaid"])

\* async fn get_payment_quote(request, unit, _options)
get_payment_quote(request, unit) ==
    LET bolt11 == from_str(request) IN
    IF ~bolt11.ok THEN bolt11
    ELSE Ok([request_lookup_id |-> bolt11.v.payment_hash, amount |-> 0, fee |-> 0,
             unit |-> unit, state |-> "Unpaid"])

GetPaymentQuote ==
    /\ \E request \in Requests, unit \in CurrencyUnit :
          ret' = [op |-> "get_payment_quote", arg |-> <<request, unit>>,
                  val |-> get_payment_quote(request, unit)]
    /\ UNCHANGED <<config, locking, notifier, store, callers, history>>

\* async fn make_payment(melt_quote, _partial_msats, _max_fee_msats)
make_payment(melt_quote) ==
    LET bolt11 == from_str(melt_quote.request) IN
    IF ~bolt11.ok THEN bolt11
    ELSE Ok([payment_proof |-> <<"">>, payment_lookup_id |-> bolt11.v.payment_hash,
             status |-> "Paid", total_spent |-> melt_quote.amount,
             unit |-> melt_quote.unit])

\* As MakePayment, but recording the status of a payment made in payment_states.
MakePaymentRecording ==
    /\ \E melt_quote \in MeltQuotes :
          LET r == make_payment(melt_quote) IN
          /\ ret' = [op |-> "make_payment", arg |-> melt_quote, val |-> r]
          /\ payment_states' =
                IF r.ok THEN Insert(payment_states, r.v.payment_lookup_id, r.v.status)
                ELSE payment_states
    /\ UNCHANGED <<config, locking, notifier, failed_payment_check, supported_units, callers, history>>

\* As MakePayment, but answering with the stored state of the payment hash and
\* failing when the fault set holds it.
MakePaymentStored ==
    /\ \E melt_quote \in MeltQuotes :
          LET r == make_payment(melt_quote)
              id == r.v.payment_lookup_id IN
          ret' = [op |-> "make_payment", arg |-> melt_quote,
                  val |-> IF ~r.ok THEN r
                          ELSE IF id \in failed_payment_check
                          THEN Err("InvoicePaymentPending")
                          ELSE Ok([r.v EXCEPT
                                     !.status = UnwrapOr(Get(payment_states, id), "Paid")])]
    /\ UNCHANGED <<config, locking, notifier, store, callers, history>>

MakePayment ==
    /\ \E melt_quote \in MeltQuotes :
          ret' = [op |-> "make_payment", arg |-> melt_quote,
                  val |-> make_payment(melt_quote)]
    /\ UNCHANGED <<config, locking, notifier, store, callers, history>>

\* async fn check_incoming_payment_status(_request_lookup_id)
check_incoming_payment_status(request_lookup_id) == Ok("Paid")

CheckIncomingPaymentStatus ==
    /\ \E id \in LookupIds :
          ret' = [op |-> "check_incoming_payment_status", arg |-> id,
                  val |-> check_incoming_payment_status(id)]
    /\ UNCHANGED <<config, locking, notifier, store, callers, history>>

\* As check_outgoing_payment, but letting a stored state answer before the fault
\* set is looked at.
check_outgoing_payment_state_first(states, fail_payments, request_lookup_id) ==
    IF request_lookup_id \in fail_payments /\ request_lookup_id \notin DOMAIN states
    THEN Err("InvoicePaymentPending")
    ELSE Ok([payment_proof |-> <<"">>, payment_lookup_id |-> request_lookup_id,
             status |-> UnwrapOr(Get(states, request_lookup_id), "Paid"),
             total_spent |-> 0, unit |-> "msat"])

\* As check_outgoing_payment, but defaulting an unlisted lookup id to Unpaid.
check_outgoing_payment_default_unpaid(states, fail_payments, request_lookup_id) ==
    LET status == UnwrapOr(Get(states, request_lookup_id), "Unpaid") IN
    IF request_lookup_id \in fail_payments THEN Err("InvoicePaymentPending")
    ELSE Ok([payment_proof |-> <<"">>, payment_lookup_id |-> request_lookup_id,
             status |-> status, total_spent |-> 0, unit |-> "msat"])

\* async fn check_outgoing_payment(request_lookup_id): the stored state, Paid when
\* there is none; the fault set is looked at after it and decides the outcome.
check_outgoing_payment(states, fail_payments, request_lookup_id) ==
    LET status == UnwrapOr(Get(states, request_lookup_id), "Paid") IN
    IF request_lookup_id \in fail_payments THEN Err("InvoicePaymentPending")
    ELSE Ok([payment_proof |-> <<"">>, payment_lookup_id |-> request_lookup_id,
             status |-> status, total_spent |-> 0, unit |-> "msat"])

\* As CheckOutgoingPayment, but a fault is consumed by the check that reports it.
CheckOutgoingPaymentOneShot ==
    /\ \E id \in LookupIds :
          LET r == check_outgoing_payment(payment_states, failed_payment_check, id) IN
          /\ ret' = [op |-> "check_outgoing_payment", arg |-> id, val |-> r]
          /\ failed_payment_check' = failed_payment_check \ {id}
          /\ lastFinal' = IF r.ok /\ r.v.status \in {"Paid", "Failed"}
                          THEN [lastFinal EXCEPT ![id] = <<r.v.status, lastFinal[id] # <<>>>>]
                          ELSE lastFinal
    /\ UNCHANGED <<config, locking, notifier, payment_states, supported_units, callers,
                   published, delivered, drainedAfterCancel, attachedCancelled,
                   registered>>

CheckOutgoingPayment ==
    /\ \E id \in LookupIds :
          LET r == check_outgoing_payment(payment_states, failed_payment_check, id) IN
          /\ ret' = [op |-> "check_outgoing_payment", arg |-> id, val |-> r]
          /\ lastFinal' = IF r.ok /\ r.v.status \in {"Paid", "Failed"}
                          THEN [lastFinal EXCEPT ![id] = <<r.v.status, lastFinal[id] # <<>>>>]
                          ELSE lastFinal
    /\ UNCHANGED <<config, locking, notifier, store, callers, published, delivered, drainedAfterCancel,
                   attachedCancelled, registered>>

\* async fn max_order(unit)
max_order(units, unit) == UnwrapOr(Get(units, unit), DefaultMaxOrder)

MaxOrder ==
    /\ \E unit \in CurrencyUnit :
          ret' = [op |-> "max_order", arg |-> unit,
                  val |-> max_order(supported_units, unit)]
    /\ UNCHANGED <<config, locking, notifier, store, callers, history>>

\* As add_supported_unit, but replacing the map by the one pair.
add_supported_unit_replacing(units, unit, order) == Insert(<<>>, unit, order)

\* pub async fn add_supported_unit(unit, max_order)
add_supported_unit(units, unit, order) == Insert(units, unit, order)

AddSupportedUnit ==
    /\ \E unit \in CurrencyUnit, order \in MaxOrders :
          /\ supported_units' = add_supported_unit(supported_units, unit, order)
          /\ registered' = [registered EXCEPT ![unit] = <<order>>]
          /\ ret' = [op |-> "add_supported_unit", arg |-> <<unit, order>>, val |-> <<>>]
    /\ UNCHANGED <<config, locking, notifier, payment_states, failed_payment_check, callers, published,
                   delivered, drainedAfterCancel, attachedCancelled, lastFinal>>

NextStore ==
    \/ GetSettings
    \/ GetPaymentQuote
    \/ MakePayment
    \/ CheckIncomingPaymentStatus
    \/ CheckOutgoingPayment
    \/ MaxOrder
    \/ AddSupportedUnit

SpecStore == Init /\ [][NextStore]_vars

\* ------------------------------------- the unit table of the mintd settings

\* Text is a sequence of characters.  The pieces a unit list is made of:
\* well-formed pairs, a pair padded with blanks, and malformed ones.
PairTexts ==
    { <<"s", "a", "t", ":", "1", "0">>,
      <<"u", "s", "d", ":", "2", "0">>,
      <<" ", "s", "a", "t", ":", "5", " ">>,
      <<"u", "s", "d", ":", "2", "5", "5">>,
      <<"u", "s", "d", ":", "2", "5", "6">>,
      <<"s", "a", "t", ":", " ", "5">>,
      <<"s", "a", "t">>,
      <<"x", ":", "1", "0">>,
      <<>> }

\* The longest list of pairs put into the environment variable
MaxPairs == 2

RECURSIVE join(_, _)
join(pieces, sep) ==
    IF Len(pieces) = 1 THEN pieces[1]
    ELSE pieces[1] \o <<sep>> \o join(Tail(pieces), sep)

\* env::var(ENV_PORTAL_WALLET_SUPPORTED_UNITS): unset (Err), or Ok(units_str)
EnvValues ==
    {<<>>} \cup
    {<<join(pieces, ",")>> : pieces \in UNION {[1..n -> PairTexts] : n \in 1..MaxPairs}}

\* str::split(sep): the pieces between separators; one piece when there is none
RECURSIVE split(_, _)
split(s, sep) ==
    IF \A i \in 1..Len(s) : s[i] # sep THEN <<s>>
    ELSE LET i == CHOOSE i \in 1..Len(s) :
                      s[i] = sep /\ \A j \in 1..(i - 1) : s[j] # sep IN
         <<SubSeq(s, 1, i - 1)>> \o split(SubSeq(s, i + 1, Len(s)), sep)

\* str::split_once(sep): Some((before, after)) at the first separator
split_once(s, sep) ==
    IF \A i \in 1..Len(s) : s[i] # sep THEN <<>>
    ELSE LET i == CHOOSE i \in 1..Len(s) :
                      s[i] = sep /\ \A j \in 1..(i - 1) : s[j] # sep IN
         << <<SubSeq(s, 1, i - 1), SubSeq(s, i + 1, Len(s))>> >>

\* str::trim()
trim(s) ==
    LET kept == {i \in 1..Len(s) : s[i] # " "} IN
    IF kept = {} THEN <<>>
    ELSE SubSeq(s, CHOOSE i \in kept : \A j \in kept : i <= j,
                   CHOOSE i \in kept : \A j \in kept : j <= i)

\* max_order: u8
U8Max == 255

DigitChars == {"0", "1", "2", "3", "4", "5", "6", "7", "8", "9"}
digit(c) ==
    CASE c = "0" -> 0 [] c = "1" -> 1 [] c = "2" -> 2 [] c = "3" -> 3 [] c = "4" -> 4
      [] c = "5" -> 5 [] c = "6" -> 6 [] c = "7" -> 7 [] c = "8" -> 8 [] c = "9" -> 9

RECURSIVE decimal(_)
decimal(digits) ==
    IF digits = <<>> THEN 0
    ELSE 10 * decimal(SubSeq(digits, 1, Len(digits) - 1)) + digit(digits[Len(digits)])

\* max_order.parse::<u8>(): an optional '+', then decimal digits of a value that
\* fits in a u8
parse_u8(s) ==
    LET digits == IF s # <<>> /\ s[1] = "+" THEN Tail(s) ELSE s IN
    IF digits = <<>> \/ \E i \in 1..Len(digits) : digits[i] \notin DigitChars
    THEN Err("Invalid max order")
    ELSE IF decimal(digits) > U8Max THEN Err("Invalid max order")
    ELSE Ok(decimal(digits))

\* The text of each unit of the model
unit_text(unit) ==
    CASE unit = "sat" -> <<"s", "a", "t">>
      [] unit = "usd" -> <<"u", "s", "d">>

\* unit.parse::<CurrencyUnit>()
parse_unit(s) ==
    IF \E unit \in CurrencyUnit : unit_text(unit) = s
    THEN Ok(CHOOSE unit \in CurrencyUnit : unit_text(unit) = s)
    ELSE Err("Invalid unit")

\* impl FromStr for SupportedUnit
SupportedUnit_from_str(s) ==
    LET halves == split_once(s, ":") IN
    IF halves = <<>> THEN Err("Invalid format")
    ELSE LET unit == parse_unit(halves[1][1])
             order == parse_u8(halves[1][2]) IN
         IF ~unit.ok THEN unit
         ELSE IF ~order.ok THEN order
         ELSE Ok([unit |-> unit.v, max_order |-> order.v])

\* units.into_iter().map(|u| (u.unit, u.max_order)).collect::<HashMap<_, _>>():
\* a later pair replaces an earlier one of the same unit
RECURSIVE collect(_)
collect(units) ==
    IF units = <<>> THEN <<>>
    ELSE LET last == units[Len(units)] IN
         Insert(collect(SubSeq(units, 1, Len(units) - 1)), last.unit, last.max_order)

\* Variant: the pairs that parse are applied and the others skipped.
from_env_skipping(units_before, env) ==
    IF env = <<>> THEN units_before
    ELSE LET pieces == split(env[1], ",")
             parsed == [i \in 1..Len(pieces) |-> SupportedUnit_from_str(trim(pieces[i]))]
             good == SelectSeq(parsed, LAMBDA r : r.ok) IN
         collect([i \in 1..Len(good) |-> good[i].v])

\* pub fn from_env(mut self) -> Self, as the unit table it returns
from_env(units_before, env) ==
    IF env = <<>> THEN units_before
    ELSE LET pieces == split(env[1], ",")
             parsed == [i \in 1..Len(pieces) |-> SupportedUnit_from_str(trim(pieces[i]))] IN
         IF \A i \in 1..Len(pieces) : parsed[i].ok
         THEN collect([i \in 1..Len(pieces) |-> parsed[i].v])
         ELSE units_before

\* Settings::from_env calls it once, on the settings read from the file.
FromEnv ==
    \E env \in EnvValues :
        /\ ret.op = "new"
        /\ config_supported_units' = from_env(config_supported_units, env)
        /\ ret' = [op |-> "from_env",
                   arg |-> [self |-> config_supported_units, env |-> env],
                   val |-> from_env(config_supported_units, env)]
        /\ UNCHANGED <<locking, notifier, store, callers, history>>

\* The settings as read from the configuration file, with any unit table.
InitConfig ==
    /\ new(<<>>, {})
    /\ no_tasks
    /\ config_supported_units \in Maps(CurrencyUnit, MaxOrders)

NextConfig == FromEnv

SpecConfig == InitConfig /\ [][NextConfig]_vars

\* ------------------------------------------- issuance followed by decoding

\* A caller enters create_incoming_payment_request with any amount and
\* description of the codec's input sets.
CreateAnyInvoice(p) ==
    \E amount \in InvoiceAmounts, description \in InvoiceDescriptions :
        create_invoice(p, amount, description)

\* Invoices of every amount and description are issued, consumed, and their
\* requests decoded again.
NextCodec ==
    \/ \E p \in Callers : CreateAnyInvoice(p)
    \/ \E p \in Callers : SendLabel(p)
    \/ WaitAnyIncomingPayment
    \/ StreamNext

SpecCodec == InitNotifier /\ [][NextCodec]_vars

\* ------------------------------------------ every request-handling operation

\* A wallet built with one settlement state and one fault pre-seeded.
InitRequests == new([id \in {1} |-> "Failed"], {2}) /\ quiescent

\* The operations of the MintPayment implementation called in any order, with
\* units registered in between, one caller issuing invoices and no consumer
\* taking labels off the stream.
NextRequests ==
    \/ GetSettings
    \/ IsWaitInvoiceActive
    \/ CancelWaitInvoice
    \/ WaitAnyIncomingPayment
    \/ GetPaymentQuote
    \/ MakePayment
    \/ CreateInvoice(1)
    \/ SendLabel(1)
    \/ CheckIncomingPaymentStatus
    \/ CheckOutgoingPayment
    \/ MaxOrder
    \/ AddSupportedUnit

SpecRequests == InitRequests /\ [][NextRequests]_vars

\* ------------------------------------------------ the calls, lock by lock

\* Variant: max_order looks at the fault set and then at the settlement states
\* before it reads the unit table.
locks_of_max_order_checks(op) ==
    CASE op = "check_outgoing_payment" -> <<"payment_states", "failed_payment_check">>
      [] op = "add_supported_unit" -> <<"supported_units">>
      [] op = "max_order" -> <<"failed_payment_check", "payment_states", "supported_units">>
      [] op = "wait_any_incoming_payment" -> <<"receiver">>

\* The Mutexes a call locks with .lock().await, in the order it locks them.
locks_of(op) ==
    CASE op = "check_outgoing_payment" -> <<"payment_states", "failed_payment_check">>
      [] op = "add_supported_unit" -> <<"supported_units">>
      [] op = "max_order" -> <<"supported_units">>
      [] op = "wait_any_incoming_payment" -> <<"receiver">>

\* The Mutexes whose guard a task holds.
held_by(t) == {m \in Mutexes : mutex[m] = t}

\* A task enters one of the calls that lock a Mutex.
Call(t) ==
    /\ task[t].op = "idle"
    /\ \/ \E id \in LookupIds :
             task' = [task EXCEPT ![t] = [op |-> "check_outgoing_payment",
                                          arg |-> <<id>>, held |-> 0]]
       \/ \E unit \in CurrencyUnit, order \in MaxOrders :
             task' = [task EXCEPT ![t] = [op |-> "add_supported_unit",
                                          arg |-> <<unit, order>>, held |-> 0]]
       \/ \E unit \in CurrencyUnit :
             task' = [task EXCEPT ![t] = [op |-> "max_order",
                                          arg |-> <<unit>>, held |-> 0]]
       \/ task' = [task EXCEPT ![t] = [op |-> "wait_any_incoming_payment",
                                       arg |-> <<>>, held |-> 0]]
    /\ UNCHANGED <<mutex, config, notifier, store, callers, ret, history>>

\* .lock().await of the next Mutex of the call: it completes once no task holds
\* the guard.
Acquire(t) ==
    LET order == locks_of(task[t].op)
        next == order[task[t].held + 1] IN
    /\ task[t].op # "idle"
    /\ task[t].held < Len(order)
    /\ mutex[next] = 0
    /\ mutex' = [mutex EXCEPT ![next] = t]
    /\ task' = [task EXCEPT ![t].held = @ + 1]
    /\ UNCHANGED <<config, notifier, store, callers, ret, history>>

\* With every lock of the call held: the body of the call, then the guards are
\* dropped as it returns.
Return(t) ==
    LET op == task[t].op
        arg == task[t].arg IN
    /\ op # "idle"
    /\ task[t].held = Len(locks_of(op))
    /\ CASE op = "check_outgoing_payment" ->
              /\ ret' = [op |-> op, arg |-> arg[1],
                         val |-> check_outgoing_payment(payment_states,
                                                        failed_payment_check, arg[1])]
              /\ UNCHANGED <<supported_units, receiver, stream>>
         [] op = "add_supported_unit" ->
              /\ supported_units' = add_supported_unit(supported_units, arg[1], arg[2])
              /\ ret' = [op |-> op, arg |-> arg, val |-> <<>>]
              /\ UNCHANGED <<receiver, stream>>
         [] op = "max_order" ->
              /\ ret' = [op |-> op, arg |-> arg[1],
                         val |-> max_order(supported_units, arg[1])]
              /\ UNCHANGED <<supported_units, receiver, stream>>
         [] op = "wait_any_incoming_payment" ->
              LET r == wait_any_incoming_payment(receiver) IN
              /\ receiver' = r.receiver
              /\ stream' = IF r.result.ok THEN "open" ELSE stream
              /\ ret' = [op |-> op, arg |-> <<>>, val |-> r.result]
              /\ UNCHANGED supported_units
    /\ mutex' = [m \in Mutexes |-> IF mutex[m] = t THEN 0 ELSE mutex[m]]
    /\ task' = [task EXCEPT ![t] = IdleTask]
    /\ UNCHANGED <<config, channel, wait_invoice_cancel_token, wait_invoice_is_active,
                   payment_states, failed_payment_check, callers, history>>

NextLocks ==
    \/ \E t \in Tasks : Call(t)
    \/ \E t \in Tasks : Acquire(t)
    \/ \E t \in Tasks : Return(t)

\* tokio's Mutex hands the lock to waiters in the order they asked (strong
\* fairness of Acquire), and the runtime keeps polling a task that can go on
\* (weak fairness of Return).  Nothing obliges a task to make another call.
SpecLocks ==
    /\ InitRequests
    /\ [][NextLocks]_vars
    /\ \A t \in Tasks : SF_vars(Acquire(t)) /\ WF_vars(Return(t))

\* ================================================================ the claims

\* C1: at most one consumer is ever attached.  Every call of
\* wait_any_incoming_payment succeeds exactly when no stream was handed out
\* before it (the first call), and fails with NoReceiver otherwise, whether the
\* stream handed out is still open or was dropped; a failed call hands out
\* nothing and the receiver is never put back.
C1_SingleConsumer ==
    [][ret'.op = "wait_any_incoming_payment" =>
        /\ ret'.val = (IF stream = "none" THEN Ok("ReceiverStream")
                       ELSE Err("NoReceiver"))
        /\ (stream # "none" => stream' = stream)
        /\ receiver' = "None"]_vars

\* A call of wait_any_incoming_payment has failed after the consumer dropped its
\* stream.
C1_Witness ==
    /\ ret.op = "wait_any_incoming_payment"
    /\ ~ret.val.ok
    /\ stream = "dropped"

\* C2: the labels the consumer has been given are, in order, the first labels
\* pushed into the channel (so a label pushed earlier is seen earlier), and no
\* label is seen twice.
C2_InOrderNoDuplicates ==
    /\ Len(delivered) <= Len(published)
    /\ delivered = SubSeq(published, 1, Len(delivered))
    /\ \A i, j \in DOMAIN delivered : delivered[i] = delivered[j] => i = j

\* The consumer has seen two labels that were pushed in the order opposite to
\* the one their invoices were created in, and a third is still buffered.
C2_Witness ==
    /\ Len(delivered) >= 2
    /\ delivered[1] > delivered[2]
    /\ channel # <<>>

\* C3: after cancel_wait_invoice, the consumer's stream ends and no label pushed
\* into the channel after the cancel is yielded by it: once the token is
\* cancelled and the buffer has been empty since, the stream yields nothing.
C3_CancelEndsStream ==
    [][drainedAfterCancel => ret'.op # "stream.next"]_vars

\* C4: is_wait_invoice_active answers true exactly when a consumer is attached,
\* that is when wait_any_incoming_payment has handed out its stream and the
\* stream has not been dropped.
C4_ActiveIffAttached ==
    ret.op = "is_wait_invoice_active" => ret.val = (stream = "open")

\* C5: with no consumer attached, publication during issuance does not block:
\* a caller that has built its invoice can complete its send and return.  (With
\* no consumer nothing is ever removed from the buffer, so a send that cannot
\* complete now cannot complete later, and the call never returns.)
C5_PublishNeverBlocks ==
    \A p \in Callers : (pc[p] = "send" /\ stream # "open") => ENABLED SendLabel(p)

\* C6: for a lookup id in the fault set, every check_outgoing_payment fails with
\* InvoicePaymentPending, whether or not the settlement-state map has an entry
\* for it and whatever the entry is, and leaves both maps as they were.
C6_FaultSetDecides ==
    [][(ret'.op = "check_outgoing_payment" /\ ret'.arg \in failed_payment_check) =>
        /\ ret'.val = Err("InvoicePaymentPending")
        /\ UNCHANGED <<payment_states, failed_payment_check>>]_vars

\* A check of a lookup id that is in the fault set and pre-seeded as Paid has
\* failed.
C6_Witness ==
    /\ ret.op = "check_outgoing_payment"
    /\ ret.arg \in failed_payment_check
    /\ ret.arg \in DOMAIN payment_states
    /\ payment_states[ret.arg] = "Paid"
    /\ ~ret.val.ok

\* C7: for a lookup id neither in the fault set nor pre-seeded,
\* check_outgoing_payment succeeds with status Paid, total spent zero and
\* payment_lookup_id equal to the id asked about.
C7_UnlistedIsPaid ==
    (/\ ret.op = "check_outgoing_payment"
     /\ ret.arg \notin failed_payment_check
     /\ ret.arg \notin DOMAIN payment_states)
    => (/\ ret.val.ok
        /\ ret.val.v.status = "Paid"
        /\ ret.val.v.total_spent = 0
        /\ ret.val.v.payment_lookup_id = ret.arg)

\* An unlisted lookup id has been checked while the other lookup id is pre-seeded
\* with another state.
C7_Witness ==
    /\ ret.op = "check_outgoing_payment"
    /\ ret.arg \notin failed_payment_check
    /\ ret.arg \notin DOMAIN payment_states
    /\ \E other \in DOMAIN payment_states : payment_states[other] = "Failed"

\* C8: once check_outgoing_payment has reported Paid or Failed for a lookup id,
\* every later check_outgoing_payment that reports a state for that id reports
\* the same one, whatever was called in between.
C8_FinalStateKept ==
    [][(/\ ret'.op = "check_outgoing_payment"
        /\ ret'.val.ok
        /\ lastFinal[ret'.arg] # <<>>)
       => ret'.val.v.status = lastFinal[ret'.arg][1]]_vars

\* A lookup id pre-seeded and reported as Failed has been checked and reported a
\* second time.
C8_Witness ==
    \E id \in LookupIds :
        /\ lastFinal[id] = <<"Failed", TRUE>>
        /\ ret.op = "check_outgoing_payment"
        /\ ret.arg = id

\* C9: max_order(unit) returns the value of the latest add_supported_unit for
\* that unit, and 32 when there was none; so registering a unit does not change
\* what another unit returns.
C9_MaxOrderLastRegistered ==
    ret.op = "max_order" =>
        ret.val = (IF registered[ret.arg] = <<>> THEN 32 ELSE registered[ret.arg][1])

\* max_order has answered for a unit registered twice with different values,
\* while the other unit is registered too.
C9_Witness ==
    /\ ret.op = "max_order"
    /\ ret.val = 20
    /\ DOMAIN supported_units = CurrencyUnit
    /\ \E other \in CurrencyUnit : supported_units[other] = 10

\* C10: cancel_wait_invoice only sets the token, so a second call changes
\* nothing; and a cancel made before any consumer attached does not change what
\* the consumer then gets: wait_any_incoming_payment still hands out the stream
\* and the stream still yields every buffered label.
C10_CancelHasNoEffect ==
    /\ [][ret'.op = "cancel_wait_invoice" =>
            /\ wait_invoice_cancel_token'
            /\ UNCHANGED <<channel, receiver, stream, wait_invoice_is_active,
                           store, callers>>]_vars
    /\ [][(/\ ret'.op = "wait_any_incoming_payment"
           /\ wait_invoice_cancel_token
           /\ stream = "none")
          => (ret'.val.ok /\ stream' = "open")]_vars
    /\ []((attachedCancelled /\ stream = "open" /\ channel # <<>>)
          => ENABLED StreamNext)

\* A consumer that attached after a cancel has been given a label.
C10_Witness ==
    /\ attachedCancelled
    /\ ret.op = "stream.next"
    /\ delivered # <<>>

\* C11: a create_incoming_payment_request whose send finds the consumer's stream
\* dropped still returns Ok with the lookup id, the request and the expiry of
\* the invoice it made; the failed send leaves the channel as it was and is not
\* turned into an error of the call.
C11_ClosedChannelStillOk ==
    [][(ret'.op = "create_incoming_payment_request" /\ stream = "dropped")
       => \E p \in Callers :
            /\ pc[p] = "send" /\ pc'[p] = "idle"
            /\ ret'.val = Ok([request_lookup_id |-> invoice[p].payment_hash,
                              request |-> to_string(invoice[p]),
                              expiry |-> "expires_at"])
            /\ channel' = channel
            /\ published' = published]_vars

\* An issuance has returned Ok after the stream was dropped, and its lookup id
\* was never published.
C11_Witness ==
    /\ ret.op = "create_incoming_payment_request"
    /\ stream = "dropped"
    /\ ret.val.ok
    /\ \A i \in 1..Len(published) : published[i] # ret.val.v.request_lookup_id

C13_AllOrNothing ==
    (ret.op = "from_env" /\ ret.arg.env # <<>>)
    => LET pieces == split(ret.arg.env[1], ",")
           halves == [i \in 1..Len(pieces) |-> split_once(trim(pieces[i]), ":")]
           malformed(i) ==
               \/ halves[i] = <<>>
               \/ ~parse_unit(halves[i][1][1]).ok
               \/ ~parse_u8(halves[i][1][2]).ok
           unit_of(i) == parse_unit(halves[i][1][1]).v
           order_of(i) == parse_u8(halves[i][1][2]).v IN
       /\ ret.val = config_supported_units
       /\ IF \E i \in 1..Len(pieces) : malformed(i)
          THEN ret.val = ret.arg.self
          ELSE \A i \in 1..Len(pieces) :
                  (\A j \in (i + 1)..Len(pieces) : unit_of(j) # unit_of(i))
                  => /\ unit_of(i) \in DOMAIN ret.val
                     /\ ret.val[unit_of(i)] = order_of(i)

\* A list whose first pair is well-formed and whose second is not has been
\* read, over a table that lacks the unit of the first pair.
C13_Witness ==
    /\ ret.op = "from_env"
    /\ ret.arg.env = <<join(<< <<"s", "a", "t", ":", "1", "0">>,
                              <<"u", "s", "d", ":", "2", "5", "6">> >>, ",")>>
    /\ DOMAIN ret.arg.self = {"usd"}

\* C14: get_payment_quote fails with InvalidInvoice when the request does not
\* decode; otherwise it returns a quote of amount 0, fee 0, state Unpaid, in the
\* unit it was asked for, with the payment hash of the request as lookup id.
\* Either way it pushes nothing into the channel and changes none of the maps.
C14_QuoteOrInvalidInvoice ==
    /\ [](ret.op = "get_payment_quote" =>
            LET request == ret.arg[1]
                unit == ret.arg[2]
                decoded == from_str(request) IN
            IF decoded.ok
            THEN ret.val = Ok([request_lookup_id |-> decoded.v.payment_hash,
                               amount |-> 0, fee |-> 0, unit |-> unit,
                               state |-> "Unpaid"])
            ELSE ret.val = Err("InvalidInvoice"))
    /\ [][ret'.op = "get_payment_quote" =>
            UNCHANGED <<channel, published, payment_states, failed_payment_check,
                        supported_units>>]_vars

\* A request that does not decode has been refused, with both maps seeded.
C14_Witness ==
    /\ ret.op = "get_payment_quote"
    /\ ret.arg[1] = <<"garbage">>
    /\ ret.val = Err("InvalidInvoice")
    /\ payment_states # <<>>
    /\ failed_payment_check # {}

\* C15: make_payment on a request that decodes returns status Paid, the payment
\* hash of the request as lookup id and the amount of the quote as total spent,
\* whatever payment_states and failed_payment_check hold for that hash.
C15_MakePaymentAlwaysPaid ==
    (ret.op = "make_payment" /\ from_str(ret.arg.request).ok)
    => /\ ret.val.ok
       /\ ret.val.v.status = "Paid"
       /\ ret.val.v.payment_lookup_id = from_str(ret.arg.request).v.payment_hash
       /\ ret.val.v.total_spent = ret.arg.amount

\* A payment has been made for a hash that is stored as Failed and is in the
\* fault set, with a quote whose amount is not the invoice's.
C15_Witness ==
    /\ ret.op = "make_payment"
    /\ ret.val.ok
    /\ ret.val.v.payment_lookup_id \in failed_payment_check
    /\ Get(payment_states, ret.val.v.payment_lookup_id) = <<"Failed">>
    /\ ret.arg.amount # from_str(ret.arg.request).v.amount

\* C16: get_settings, is_wait_invoice_active, cancel_wait_invoice,
\* wait_any_incoming_payment, get_payment_quote, make_payment,
\* create_incoming_payment_request, check_incoming_payment_status,
\* check_outgoing_payment and max_order leave payment_states,
\* failed_payment_check and supported_units as they were; and the channel
\* changes in none of them except by the one label create_incoming_payment_request
\* appends to it.
C16_RequestsOnlyRead ==
    [][ret'.op \in {"get_settings", "is_wait_invoice_active", "cancel_wait_invoice",
                    "wait_any_incoming_payment", "get_payment_quote", "make_payment",
                    "create_fake_invoice", "create_incoming_payment_request",
                    "check_incoming_payment_status", "check_outgoing_payment",
                    "max_order"}
       => /\ UNCHANGED <<payment_states, failed_payment_check, supported_units>>
          /\ \/ UNCHANGED channel
             \/ /\ ret'.op = "create_incoming_payment_request"
                /\ channel' = Append(channel, ret'.val.v.request_lookup_id)]_vars

\* An issuance has appended its label to the channel of a wallet whose three
\* maps all hold entries.
C16_Witness ==
    /\ ret.op = "create_incoming_payment_request"
    /\ channel # <<>>
    /\ channel[Len(channel)] = ret.val.v.request_lookup_id
    /\ payment_states # <<>>
    /\ failed_payment_check # {}
    /\ supported_units # <<>>

\* C17, as stated: every create_incoming_payment_request that returns has put
\* exactly one label into the channel, the lookup id it returns, and no other
\* operation puts a label into the channel.
C17_PublishesExactlyOne ==
    [][IF ret'.op = "create_incoming_payment_request"
       THEN /\ channel' = Append(channel, ret'.val.v.request_lookup_id)
            /\ published' = Append(published, ret'.val.v.request_lookup_id)
       ELSE /\ published' = published
            /\ Len(channel') <= Len(channel)]_vars

\* C17, amended: a create_incoming_payment_request that returns while the
\* stream has not been dropped has put exactly one label into the channel, the
\* lookup id it returns; one that returns after the stream was dropped has put
\* none; and no other operation puts a label into the channel.
C17_PublishesOneUnlessDropped ==
    [][IF ret'.op = "create_incoming_payment_request"
       THEN IF stream = "dropped"
            THEN channel' = channel /\ published' = published
            ELSE /\ channel' = Append(channel, ret'.val.v.request_lookup_id)
                 /\ published' = Append(published, ret'.val.v.request_lookup_id)
       ELSE /\ published' = published
            /\ Len(channel') <= Len(channel)]_vars

\* A second issuance has returned with a consumer attached, its lookup id being
\* the last label published.
C17_Witness ==
    /\ ret.op = "create_incoming_payment_request"
    /\ stream = "open"
    /\ Len(published) >= 2
    /\ published[Len(published)] = ret.val.v.request_lookup_id

\* C18: labels published before a consumer attaches are kept.  Until a stream
\* is handed out every published label sits in the channel, in publication
\* order; while the stream is open the labels delivered so far followed by the
\* labels still in the channel are exactly the labels published, in publication
\* order, so the labels of before the attach come out first; and the open
\* stream can always yield the next buffered label.
C18_BufferedUntilAttached ==
    /\ stream = "none" => (delivered = <<>> /\ channel = published)
    /\ stream = "open" => published = delivered \o channel
    /\ (stream = "open" /\ channel # <<>>) => ENABLED StreamNext

\* A consumer has attached to a full buffer and has been given all of its
\* labels, while one more label, published after the attach, is waiting.
C18_Witness ==
    /\ stream = "open"
    /\ ret.op = "stream.next"
    /\ Len(delivered) = ChannelCapacity
    /\ Len(channel) = 1
    /\ ~drainedAfterCancel
    /\ random_bytes = ChannelCapacity + 1

\* C20: the channel never holds more than 8 labels, and a
\* create_incoming_payment_request that reaches its send with the channel full
\* and the stream not dropped stays in the send: it cannot complete until a
\* label is taken off the channel or the stream is dropped, and it can complete
\* as soon as either has happened.
C20_QueueBounded ==
    /\ Len(channel) <= 8
    /\ \A p \in Callers :
          pc[p] = "send" =>
              (ENABLED SendLabel(p) <=> (Len(channel) < 8 \/ stream = "dropped"))

\* An issuance is suspended in its send on a full channel while a consumer is
\* attached.
C20_Witness ==
    /\ Len(channel) = 8
    /\ stream = "open"
    /\ \E p \in Callers : pc[p] = "send" /\ ~ENABLED SendLabel(p)

\* C19: the calls do not deadlock on the Mutexes of the maps.  Only
\* check_outgoing_payment ever holds two guards, and it holds the guard of
\* failed_payment_check only together with that of payment_states, which it
\* took first; add_supported_unit, max_order and wait_any_incoming_payment
\* hold at most the one guard of their own Mutex; and every task inside a call,
\* waiting for a lock or holding one, gets to the end of the call, where it
\* holds none.
C19_NoDeadlockOnLocks ==
    /\ [](\A t \in Tasks :
            /\ Cardinality(held_by(t)) <= 2
            /\ Cardinality(held_by(t)) = 2 => task[t].op = "check_outgoing_payment"
            /\ "failed_payment_check" \in held_by(t) => "payment_states" \in held_by(t)
            /\ task[t].op = "add_supported_unit" => held_by(t) \subseteq {"supported_units"}
            /\ task[t].op = "max_order" => held_by(t) \subseteq {"supported_units"}
            /\ task[t].op = "wait_any_incoming_payment" => held_by(t) \subseteq {"receiver"}
            /\ task[t].op = "idle" => held_by(t) = {})
    /\ \A t \in Tasks : (task[t].op # "idle") ~> (task[t].op = "idle")

\* One task holds both guards of check_outgoing_payment while the other waits
\* in check_outgoing_payment for the first of them.
C19_Witness ==
    \E t, u \in Tasks :
        /\ held_by(t) = {"payment_states", "failed_payment_check"}
        /\ task[u].op = "check_outgoing_payment"
        /\ task[u].held = 0
====
